---- MODULE Spec2Model ----
(***************************************************************************)
(* A model of pre_commit_rust.py: the pre-commit dispatcher that maps      *)
(* changed files to their deepest enclosing Cargo root directory and runs  *)
(* one cargo command per selected directory.                               *)
(*                                                                         *)
(* Strings that the program inspects (file names) are sequences of         *)
(* one-character strings; a path is the sequence of its pathlib parts,     *)
(* the root anchor "/" being a part of its own, Path(".") being <<>>.      *)
(* An optional value is <<>> (None) or <<v>> (supplied).                   *)
(***************************************************************************)
EXTENDS Integers, Sequences, FiniteSets

\* ------------------------------------------------------------------ bounds

\* Longest changed-file list handed to the program.
MaxFiles == 2

\* ------------------------------------------------------------ input values

Anchor == <<"/">>
N_proj == <<"p", "r", "o", "j">>
N_sub == <<"s", "u", "b">>
N_other == <<"o", "t", "h", "e", "r">>
N_lib_rs == <<"l", "i", "b", ".", "r", "s">>
N_main_rs == <<"m", "a", "i", "n", ".", "r", "s">>
N_dot_rs == <<".", "r", "s">>
N_readme == <<"R", "E", "A", "D", "M", "E", ".", "m", "d">>
N_cargo_toml == <<"C", "a", "r", "g", "o", ".", "t", "o", "m", "l">>
N_cargo_lock == <<"C", "a", "r", "g", "o", ".", "l", "o", "c", "k">>

\* The manifests a working tree may hold, as glob("**/Cargo.toml") names them.
ManifestUniverse ==
    { <<N_cargo_toml>>, <<N_proj, N_cargo_toml>>, <<N_proj, N_sub, N_cargo_toml>> }

\* The paths a caller may pass as changed files.
FileUniverse ==
    { <<N_proj, N_sub, N_lib_rs>>,
      <<N_proj, N_readme>>,
      <<N_proj, N_cargo_toml>>,
      <<N_main_rs>>,
      <<N_dot_rs>>,
      <<Anchor, N_other, N_cargo_lock>> }

FileLists == UNION { [1..n -> FileUniverse] : n \in 0..MaxFiles }

\* What the subprocess may return: 0, an exit code, or minus a signal number.
RetCodes == { -2, 0, 1, 2 }

ConfigValues == { <<>>, <<"">>, <<"max_width=80">> }
FeatureValues == { <<>>, <<"">>, <<"foo,bar">> }

\* The command lines: no subcommand, an unknown one, or one of ACTIONS (ActionNames) with
\* its own options (an option of another subcommand is not in the namespace).
ActionNames == { "fmt", "check", "clippy" }

Argvs ==
    { [cmd |-> c, config |-> <<>>, features |-> <<>>, all_features |-> FALSE] :
        c \in { "none", "bogus", "clippy" } }
    \cup { [cmd |-> "fmt", config |-> v, features |-> <<>>, all_features |-> FALSE] :
        v \in ConfigValues }
    \cup { [cmd |-> "check", config |-> <<>>, features |-> v, all_features |-> b] :
        v \in FeatureValues, b \in BOOLEAN }

\* ---------------------------------------------------------------- pathlib

Range(s) == { s[k] : k \in 1..Len(s) }

\* PurePath.root: "/" for an anchored path, "" otherwise.
HasRoot(p) == Len(p) > 0 /\ p[1] = Anchor

\* PurePath.name: the last part, unless the path is only its anchor.
name(p) == IF Len(p) > (IF HasRoot(p) THEN 1 ELSE 0) THEN p[Len(p)] ELSE <<>>

\* str.rfind("."), 1-based; 0 when there is no dot.
rfind_dot(s) ==
    LET dots == { k \in 1..Len(s) : s[k] = "." }
    IN IF dots = {} THEN 0 ELSE CHOOSE k \in dots : \A j \in dots : j <= k

\* PurePath.suffix: name[i:] when 0 < i < len(name) - 1 (0-based i).
suffix(p) ==
    LET nm == name(p)
        i == rfind_dot(nm)
    IN IF 1 < i /\ i < Len(nm) THEN SubSeq(nm, i, Len(nm)) ELSE <<>>

\* PurePath.parent: the path without its last part.
parent(p) == IF Len(p) > (IF HasRoot(p) THEN 1 ELSE 0) THEN SubSeq(p, 1, Len(p) - 1) ELSE p

\* relative_to compares [drv, root] + parts[1:] for an anchored path.
abs_parts(p) == IF HasRoot(p) THEN <<<<>>, Anchor>> \o Tail(p) ELSE p

is_relative_to_lexical(path, other) ==
    Len(path) >= Len(other) /\ SubSeq(path, 1, Len(other)) = other

is_relative_to(path, other) ==
    LET n == Len(abs_parts(other))
    IN IF n = 0
       THEN ~HasRoot(path)
       ELSE /\ Len(abs_parts(path)) >= n
            /\ SubSeq(abs_parts(path), 1, n) = abs_parts(other)

\* ---------------------------------------------------------- is_rust_file

is_rust_file_any_suffix(path) ==
    \/ suffix(path) # <<>>
    \/ name(path) \in { N_cargo_toml, N_cargo_lock }

is_rust_file(path) ==
    IF suffix(path) = <<".", "r", "s">> THEN TRUE
    ELSE IF name(path) \in { N_cargo_toml, N_cargo_lock } THEN TRUE
    ELSE FALSE

\* -------------------------------------------------- path_len and lru_cache

\* functools.lru_cache's default maxsize.
LruMaxsize == 128

\* The cache is the sequence of its entries <<path, value>>, least recently
\* used first.  A hit moves the entry to the end; a miss computes
\* len(path.parts), appends it and drops the oldest entry once full.
path_len(c, path) ==
    LET hits == { k \in 1..Len(c) : c[k][1] = path }
    IN IF hits # {}
       THEN LET k == CHOOSE h \in hits : TRUE
            IN [value |-> c[k][2],
                cache |-> SubSeq(c, 1, k - 1) \o SubSeq(c, k + 1, Len(c)) \o <<c[k]>>]
       ELSE LET full == Append(c, <<path, Len(path)>>)
            IN [value |-> Len(path),
                cache |-> IF Len(full) > LruMaxsize THEN Tail(full) ELSE full]

\* max(roots, key=path_len) on a non-empty list: the key of every item is
\* taken in list order; the first item with the greatest key wins.
RECURSIVE max_scan(_, _, _, _, _)
max_scan(roots, k, best, bestkey, c) ==
    IF k > Len(roots)
    THEN [value |-> best, cache |-> c]
    ELSE LET r == path_len(c, roots[k])
         IN IF r.value > bestkey
            THEN max_scan(roots, k + 1, roots[k], r.value, r.cache)
            ELSE max_scan(roots, k + 1, best, bestkey, r.cache)

max_first_item(roots, c) == [value |-> roots[1], cache |-> c]

max_by_path_len(roots, c) ==
    LET r == path_len(c, roots[1])
    IN max_scan(roots, 2, roots[1], r.value, r.cache)

\* ------------------------------------------------------ command building

\* A command string is the sequence of the pieces concatenated into it.
run_fmt_cmd(a) ==
    LET cmd == <<"cargo fmt --">>
    IN IF a.config # <<>> /\ a.config[1] # ""
       THEN cmd \o <<" --config ", a.config[1]>>
       ELSE cmd

run_check_cmd(a) ==
    LET cmd == <<"cargo check">>
        cmd1 == IF a.features # <<>> THEN cmd \o <<" --features=", a.features[1]>> ELSE cmd
    IN IF a.all_features THEN cmd1 \o <<" --all-features">> ELSE cmd1

run_clippy_cmd(a) == <<"cargo clippy -- -D warnings">>

\* args.func(args, d): the command the selected subcommand's function runs.
func_cmd(a) ==
    CASE a.cmd = "fmt" -> run_fmt_cmd(a)
      [] a.cmd = "check" -> run_check_cmd(a)
      [] a.cmd = "clippy" -> run_clippy_cmd(a)

\* ------------------------------------------------------------------ state

VARIABLES
    pc,             \* position of main
    argv,           \* the command line (subcommand and options)
    changed_files,  \* args.files
    manifests,      \* the Cargo.toml files of the working tree
    output,         \* what argparse printed: "", "help" or "usage"
    scans,          \* completed calls of find_cargo_root_dirs
    root_dirs,      \* get_run_dirs' root_dirs (a list, in glob's order)
    run_dirs,       \* get_run_dirs' run_dirs
    i,              \* index of the next changed file of the loop
    cache,          \* path_len's lru_cache
    pending,        \* run directories the generator of sum() has yet to yield
    running,        \* subprocesses in progress: [cmd, cwd]
    procs,          \* completed subprocesses: [cmd, cwd, returncode]
    failed,         \* sum()'s running total
    returned,       \* <<>>, or <<s>> once the process ended with status s
    calls,          \* completed calls of get_run_dirs
    prev            \* <<>>, or <<r>>: the arguments and result of an earlier call

vars == << pc, argv, changed_files, manifests, output, scans, root_dirs, run_dirs,
           i, cache, pending, running, procs, failed, returned, calls, prev >>

\* All orders of a finite set, as sequences without repetition.
Orders(S) ==
    { s \in [1..Cardinality(S) -> S] : \A a, b \in 1..Cardinality(S) : a # b => s[a] # s[b] }

Init ==
    /\ pc = "parse_args"
    /\ argv \in Argvs
    /\ changed_files \in FileLists
    /\ manifests \in SUBSET ManifestUniverse
    /\ output = ""
    /\ scans = 0
    /\ root_dirs = <<>>
    /\ run_dirs = {}
    /\ i = 1
    /\ cache = <<>>
    /\ pending = {}
    /\ running = {}
    /\ procs = <<>>
    /\ failed = 0
    /\ returned = <<>>
    /\ calls = 0
    /\ prev = <<>>

\* ------------------------------------------------------------------- main

\* parse_args and the func check: an unknown subcommand makes argparse print
\* its usage and exit 2; no subcommand leaves func None, prints the help and
\* returns 1; otherwise main goes on to get_run_dirs.
main_parse_args_no_return ==
    /\ pc = "parse_args"
    /\ pc' = IF argv.cmd = "bogus" THEN "done" ELSE "get_run_dirs"
    /\ output' = IF argv.cmd = "bogus" THEN "usage"
                 ELSE IF argv.cmd = "none" THEN "help" ELSE ""
    /\ returned' = IF argv.cmd = "bogus" THEN <<2>> ELSE <<>>
    /\ UNCHANGED << argv, changed_files, manifests, scans, root_dirs, run_dirs, i,
                    cache, pending, running, procs, failed, calls, prev >>

main_parse_args ==
    /\ pc = "parse_args"
    /\ IF argv.cmd \notin ActionNames
       THEN /\ pc' = "done"
            /\ output' = IF argv.cmd = "none" THEN "help" ELSE "usage"
            /\ returned' = IF argv.cmd = "none" THEN <<1>> ELSE <<2>>
       ELSE /\ pc' = "get_run_dirs"
            /\ output' = ""
            /\ returned' = <<>>
    /\ UNCHANGED << argv, changed_files, manifests, scans, root_dirs, run_dirs, i,
                    cache, pending, running, procs, failed, calls, prev >>

\* find_cargo_root_dirs, called on entry to get_run_dirs: the parent of every
\* manifest, in the order glob yields them (any order).
find_cargo_root_dirs ==
    /\ pc = "get_run_dirs"
    /\ \E order \in Orders(manifests) :
         root_dirs' = [k \in 1..Len(order) |-> parent(order[k])]
    /\ scans' = scans + 1
    /\ run_dirs' = {}
    /\ i' = 1
    /\ pc' = "loop"
    /\ UNCHANGED << argv, changed_files, manifests, output, cache, pending, running,
                    procs, failed, returned, calls, prev >>

\* roots = [d for d in root_dirs if path.is_relative_to(d)]
ancestors(path, dirs) == SelectSeq(dirs, LAMBDA d : is_relative_to(path, d))

\* "if not roots: continue"
not_roots_never(roots) == FALSE

not_roots(roots) == roots = <<>>

\* One iteration of get_run_dirs' loop over changed_files.  max() of an
\* empty list raises ValueError, which nothing catches: the interpreter
\* prints the traceback and exits 1.
get_run_dirs_step ==
    /\ pc = "loop"
    /\ i <= Len(changed_files)
    /\ LET path == changed_files[i]
           roots == ancestors(path, root_dirs)
       IN IF ~is_rust_file(path) \/ not_roots(roots)
          THEN /\ i' = i + 1
               /\ UNCHANGED << pc, run_dirs, cache, returned >>
          ELSE IF roots = <<>>
          THEN /\ pc' = "raised"
               /\ returned' = <<1>>
               /\ UNCHANGED << i, run_dirs, cache >>
          ELSE LET m == max_by_path_len(roots, cache)
               IN /\ run_dirs' = run_dirs \cup { m.value }
                  /\ cache' = m.cache
                  /\ i' = i + 1
                  /\ UNCHANGED << pc, returned >>
    /\ UNCHANGED << argv, changed_files, manifests, output, scans, root_dirs, pending,
                    running, procs, failed, calls, prev >>

\* get_run_dirs returns; "if not run_dirs: return 0", else sum() starts.
get_run_dirs_return_all_roots ==
    /\ pc = "loop"
    /\ i > Len(changed_files)
    /\ calls' = calls + 1
    /\ pc' = "dispatch"
    /\ pending' = IF run_dirs = {} THEN Range(root_dirs) ELSE run_dirs
    /\ UNCHANGED << returned, argv, changed_files, manifests, output, scans, root_dirs,
                    run_dirs, i, cache, running, procs, failed, prev >>

get_run_dirs_return ==
    /\ pc = "loop"
    /\ i > Len(changed_files)
    /\ calls' = calls + 1
    /\ IF run_dirs = {}
       THEN /\ pc' = "done"
            /\ returned' = <<0>>
            /\ UNCHANGED pending
       ELSE /\ pc' = "dispatch"
            /\ pending' = run_dirs
            /\ UNCHANGED returned
    /\ UNCHANGED << argv, changed_files, manifests, output, scans, root_dirs, run_dirs,
                    i, cache, running, procs, failed, prev >>

\* The generator yields the next directory (a set iterates in any order) and
\* args.func builds the command; run_action starts the subprocess in it and
\* blocks.
run_action_start_no_wait ==
    /\ pc = "dispatch"
    /\ \E d \in pending :
         /\ running' = running \cup { [cmd |-> func_cmd(argv), cwd |-> d] }
         /\ pending' = pending \ { d }
    /\ UNCHANGED << pc, argv, changed_files, manifests, output, scans, root_dirs,
                    run_dirs, i, cache, procs, failed, returned, calls, prev >>

run_action_start ==
    /\ pc = "dispatch"
    /\ \E d \in pending :
         /\ running' = running \cup { [cmd |-> func_cmd(argv), cwd |-> d] }
         /\ pending' = pending \ { d }
    /\ pc' = "subprocess"
    /\ UNCHANGED << argv, changed_files, manifests, output, scans, root_dirs, run_dirs,
                    i, cache, procs, failed, returned, calls, prev >>

\* The subprocess exits; run_action returns proc.returncode, which sum() adds.
run_action_exit ==
    /\ running # {}
    /\ \E p \in running, rc \in RetCodes :
         /\ procs' = Append(procs, [cmd |-> p.cmd, cwd |-> p.cwd, returncode |-> rc])
         /\ failed' = failed + rc
         /\ running' = running \ { p }
    /\ pc' = "dispatch"
    /\ UNCHANGED << argv, changed_files, manifests, output, scans, root_dirs, run_dirs,
                    i, cache, pending, returned, calls, prev >>

\* The generator is exhausted: return int(failed > 0).
main_return_on_failure ==
    /\ pc = "dispatch"
    /\ pending = {} \/ failed > 0
    /\ running = {}
    /\ returned' = << IF failed > 0 THEN 1 ELSE 0 >>
    /\ pc' = "done"
    /\ UNCHANGED << argv, changed_files, manifests, output, scans, root_dirs, run_dirs,
                    i, cache, pending, running, procs, failed, calls, prev >>

main_return ==
    /\ pc = "dispatch"
    /\ pending = {}
    /\ running = {}
    /\ returned' = << IF failed > 0 THEN 1 ELSE 0 >>
    /\ pc' = "done"
    /\ UNCHANGED << argv, changed_files, manifests, output, scans, root_dirs, run_dirs,
                    i, cache, pending, running, procs, failed, calls, prev >>

Next ==
    \/ main_parse_args
    \/ find_cargo_root_dirs
    \/ get_run_dirs_step
    \/ get_run_dirs_return
    \/ run_action_start
    \/ run_action_exit
    \/ main_return

Spec == Init /\ [][Next]_vars

\* ------------------------------------------- get_run_dirs called twice

\* The file lists a second call may be given: the same files in any order and
\* multiplicity, or one file more or one file fewer.
Neighbours(files) ==
    { l \in FileLists :
        Cardinality((Range(l) \ Range(files)) \cup (Range(files) \ Range(l))) <= 1 }

InitTwice ==
    /\ pc = "get_run_dirs"
    /\ argv = [cmd |-> "clippy", config |-> <<>>, features |-> <<>>, all_features |-> FALSE]
    /\ changed_files \in FileLists
    /\ manifests \in SUBSET ManifestUniverse
    /\ output = ""
    /\ scans = 0
    /\ root_dirs = <<>>
    /\ run_dirs = {}
    /\ i = 1
    /\ cache = <<>>
    /\ pending = {}
    /\ running = {}
    /\ procs = <<>>
    /\ failed = 0
    /\ returned = <<>>
    /\ calls = 0
    /\ prev = <<>>

\* The first call returns and get_run_dirs is called again in the same
\* process (path_len's cache lives on, the first call's locals do not), on a
\* neighbouring file list.
get_run_dirs_again ==
    /\ pc = "loop"
    /\ i > Len(changed_files)
    /\ calls = 0
    /\ calls' = 1
    /\ prev' = << [files |-> changed_files, root_dirs |-> root_dirs, run_dirs |-> run_dirs] >>
    /\ changed_files' \in Neighbours(changed_files)
    /\ root_dirs' = <<>>
    /\ run_dirs' = {}
    /\ i' = 1
    /\ pc' = "get_run_dirs"
    /\ UNCHANGED << argv, manifests, output, scans, cache, pending, running, procs,
                    failed, returned >>

\* The second call returns.
get_run_dirs_second_return ==
    /\ pc = "loop"
    /\ i > Len(changed_files)
    /\ calls = 1
    /\ calls' = 2
    /\ pc' = "done"
    /\ UNCHANGED << argv, changed_files, manifests, output, scans, root_dirs, run_dirs,
                    i, cache, pending, running, procs, failed, returned, prev >>

NextTwice ==
    \/ find_cargo_root_dirs
    \/ get_run_dirs_step
    \/ get_run_dirs_again
    \/ get_run_dirs_second_return

SpecTwice == InitTwice /\ [][NextTwice]_vars

\* ----------------------------------------------------------------- claims

D_top == <<>>
D_proj == <<N_proj>>
D_sub == <<N_proj, N_sub>>
F_lib == <<N_proj, N_sub, N_lib_rs>>
F_readme == <<N_proj, N_readme>>
F_main == <<N_main_rs>>
F_lock == <<Anchor, N_other, N_cargo_lock>>

\* r is a path-prefix ancestor of f: f is r followed by further segments
\* (the relative "." is no ancestor of an anchored path).
IsAncestor(r, f) ==
    /\ \E n \in 0..Len(f) : SubSeq(f, 1, n) = r
    /\ r = <<>> => (f = <<>> \/ f[1] # Anchor)

\* The file's suffix is ".rs", or it is named Cargo.toml or Cargo.lock.
Recognized(f) ==
    LET nm == f[Len(f)]
    IN \/ nm = N_cargo_toml
       \/ nm = N_cargo_lock
       \/ Len(nm) > 3 /\ SubSeq(nm, Len(nm) - 2, Len(nm)) = <<".", "r", "s">>

Resolvable(f, R) == Recognized(f) /\ \E r \in R : IsAncestor(r, f)

Deepest(f, R) ==
    CHOOSE r \in R : IsAncestor(r, f) /\ \A q \in R : IsAncestor(q, f) => Len(q) <= Len(r)

ExpectedRunDirs(files, R) ==
    { Deepest(f, R) : f \in { g \in Range(files) : Resolvable(g, R) } }

Processed == SubSeq(changed_files, 1, i - 1)
Selected == argv.cmd \in ActionNames
Cwds(ps) == { p.cwd : p \in ps }

\* C1: when main returns after running commands, it returns 1 if and only if
\* some command returned a non-zero status (of either sign), and 0 otherwise.
C1_AggregateExitStatus ==
    (pc = "done" /\ Selected /\ procs # <<>>) =>
        /\ returned \in { <<0>>, <<1>> }
        /\ returned = <<1>> <=> \E k \in 1..Len(procs) : procs[k].returncode # 0

\* C2: after the scan, the run-directory set is at every point of the loop,
\* and on return, exactly the set of the deepest ancestor roots of the
\* recognized files processed so far that have an ancestor among the roots;
\* so each file contributes at most one directory.
C2_DeepestAncestor ==
    scans >= 1 =>
        /\ run_dirs = ExpectedRunDirs(Processed, Range(root_dirs))
        /\ Cardinality(run_dirs) <= Len(Processed)

C2_Witness ==
    /\ calls = 1
    /\ changed_files = <<F_lib>>
    /\ { D_proj, D_sub } \subseteq Range(root_dirs)
    /\ run_dirs = { D_sub }

\* C3: when main returns after get_run_dirs, the command has been run exactly
\* once in every run directory and in no other directory, whatever the
\* statuses were.
C3_OncePerDirectory ==
    (pc = "done" /\ calls = 1) =>
        /\ \A d \in run_dirs : Cardinality({ k \in 1..Len(procs) : procs[k].cwd = d }) = 1
        /\ \A k \in 1..Len(procs) : procs[k].cwd \in run_dirs

C3_Witness ==
    /\ pc = "done"
    /\ Len(procs) = 2
    /\ procs[1].returncode # 0
    /\ procs[2].returncode = 0

\* C4: an empty run-directory set (an empty file list always gives one) means
\* no command is ever started and main returns 0.
C4_EmptyWorkSucceeds ==
    /\ (calls = 1 /\ run_dirs = {}) =>
           /\ pc = "done"
           /\ returned = <<0>>
           /\ procs = <<>>
           /\ running = {}
    /\ (calls = 1 /\ changed_files = <<>>) => run_dirs = {}

C4_Witness ==
    /\ pc = "done"
    /\ argv.cmd = "check"
    /\ argv.all_features
    /\ changed_files = <<F_readme>>
    /\ D_proj \in Range(root_dirs)
    /\ returned = <<0>>

C5_OnlyRecognized ==
    scans >= 1 =>
        \A d \in run_dirs :
            \E k \in 1..(i - 1) :
                Recognized(changed_files[k]) /\ IsAncestor(d, changed_files[k])

C5_Example ==
    IF prev # <<>>
    THEN (prev[1].files = <<F_lib, F_readme>>
            /\ Range(prev[1].root_dirs) = { D_proj, D_sub })
         => prev[1].run_dirs = { D_sub }
    ELSE TRUE

C5_SameRecognized ==
    IF calls = 2
    THEN ({ f \in Range(prev[1].files) : Recognized(f) }
            = { f \in Range(changed_files) : Recognized(f) })
         => run_dirs = prev[1].run_dirs
    ELSE TRUE

\* C5: every run directory is an ancestor of a recognized processed file; the
\* example of the specification gives exactly {proj/sub}; and two calls whose
\* file lists hold the same recognized files return the same set.
C5_RecognizedFilter == C5_OnlyRecognized /\ C5_Example /\ C5_SameRecognized

C5_Witness ==
    /\ calls = 2
    /\ prev[1].files = <<F_lib, F_readme>>
    /\ Range(root_dirs) = { D_proj, D_sub }
    /\ changed_files = <<F_lib>>
    /\ run_dirs = { D_sub }

\* C6: a recognized file with no ancestor among the roots raises nothing and
\* adds nothing: every run directory, and every directory a command runs in,
\* is an ancestor of a resolvable file; a list of unresolvable files gives the
\* empty set; and the loop goes on to the end of the list.
C6_UnresolvableSkipped ==
    scans >= 1 =>
        /\ pc # "raised"
        /\ \A d \in run_dirs \cup Cwds(running) \cup Cwds(Range(procs)) :
               \E f \in Range(changed_files) :
                   Resolvable(f, Range(root_dirs)) /\ IsAncestor(d, f)
        /\ (\A f \in Range(Processed) : ~Resolvable(f, Range(root_dirs))) => run_dirs = {}
        /\ calls >= 1 => i = Len(changed_files) + 1

C6_Witness ==
    /\ pc = "done"
    /\ changed_files = <<F_lock, F_main>>
    /\ run_dirs = { D_top }
    /\ Len(procs) = 1

HasPiece(cmd, piece) == \E k \in 1..Len(cmd) : cmd[k] = piece

\* C7: every command starts with the action's template, and holds the flag of
\* a modifier if and only if that option was supplied, whatever its value.
C7_CommandConstruction ==
    \A p \in running \cup Range(procs) :
        /\ p.cmd[1] = (CASE argv.cmd = "fmt" -> "cargo fmt --"
                         [] argv.cmd = "check" -> "cargo check"
                         [] argv.cmd = "clippy" -> "cargo clippy -- -D warnings")
        /\ HasPiece(p.cmd, " --config ") <=> argv.config # <<>>
        /\ HasPiece(p.cmd, " --features=") <=> argv.features # <<>>
        /\ HasPiece(p.cmd, " --all-features") <=> argv.all_features

\* C8: without a recognized action the run ends non-zero after printing the
\* help or usage text, and never scans, resolves or runs anything.
C8_UsageErrorBeforeWork ==
    ~Selected =>
        /\ pc \in { "parse_args", "done" }
        /\ scans = 0
        /\ calls = 0
        /\ run_dirs = {}
        /\ running = {}
        /\ procs = <<>>
        /\ pc = "done" => (output # "" /\ returned \in { <<1>>, <<2>> })

C8_Witness ==
    /\ pc = "done"
    /\ argv.cmd = "none"
    /\ output = "help"
    /\ returned = <<1>>

\* C9: a second call on the same files, in any order and multiplicity, with
\* the roots scanned in any order and path_len's cache kept, returns the set
\* the first call returned.
C9_ResolverDeterministic ==
    IF calls = 2
    THEN Range(prev[1].files) = Range(changed_files) => run_dirs = prev[1].run_dirs
    ELSE TRUE

C9_Witness ==
    /\ calls = 2
    /\ prev[1].files = <<F_main, F_lib>>
    /\ changed_files = <<F_lib, F_main>>
    /\ Range(prev[1].files) = Range(changed_files)
    /\ prev[1].root_dirs = <<D_top, D_proj, D_sub>>
    /\ root_dirs = <<D_sub, D_top, D_proj>>
    /\ prev[1].run_dirs = { D_top, D_sub }
    /\ run_dirs = { D_top, D_sub }
    /\ Len(cache) = 3

C10_Order ==
    /\ (running # {} \/ procs # <<>>) =>
           /\ scans = 1
           /\ calls = 1
           /\ i = Len(changed_files) + 1
           /\ pending \cup Cwds(running) \cup Cwds(Range(procs)) = run_dirs
    /\ (pc = "done" /\ Selected) => scans = 1
    /\ Cardinality(running) <= 1
    /\ running # {} <=> pc = "subprocess"
    /\ \A p \in running : p.cwd \in run_dirs \ Cwds(Range(procs))

C10_Step ==
    /\ pc \in { "dispatch", "subprocess" } =>
           (root_dirs' = root_dirs /\ run_dirs' = run_dirs /\ scans' = scans)
    /\ (running' # running /\ running' # {}) => running = {}

\* C10: commands start only after the single scan and the whole resolution;
\* at most one subprocess is in progress, in its own run directory, the next
\* starting only after the previous one exited; the roots stay as scanned.
C10_Ordering == []C10_Order /\ [][C10_Step]_vars

C10_Witness ==
    /\ pc = "subprocess"
    /\ Len(procs) = 1
    /\ Cardinality(running) = 1
    /\ \A p \in running : p.cwd # procs[1].cwd

====
